---------------------------- MODULE Spec2Model ----------------------------
(***************************************************************************)
(* Discrete-event M/M/1/N and multi-server queue simulators.               *)
(*                                                                         *)
(*   mm1n.py      run_mm1n : one server, hard cutoff at the horizon        *)
(*   simulator.py run_sim  : M servers, probabilistic routing, arrivals    *)
(*                           stop after T and the event heap is drained    *)
(*                                                                         *)
(* Time is an integer number of ticks.  The random stream is a stream of   *)
(* uniform draws u in 0..One-1, standing for values of [0,1) in increasing *)
(* order; probabilities are integers on the same scale, on which One       *)
(* stands for 1.0 and Tol for the 1e-9 tolerance of the probability-sum    *)
(* validation, so that One - Tol stands for 1 - 1e-9: a sum the validation *)
(* accepts and a value random.random() can return.                         *)
(***************************************************************************)
EXTENDS Integers, Sequences, FiniteSets

VARIABLES
    engine,     \* which program runs: "mm1n", "sim", or "both" (paired run)
    zeroGaps,   \* how many more zero inter-arrival times the stream may yield
    tape,       \* paired run: the seeded random stream, fixed at the start
    pos,        \* paired run: how many draws each engine has consumed
    args_mm,    \* arguments of run_mm1n
    mm,         \* locals of run_mm1n
    args_sim,   \* arguments of run_sim
    sim         \* locals of run_sim

vars == <<engine, zeroGaps, tape, pos, args_mm, mm, args_sim, sim>>

----------------------------------------------------------------------------
(* Bounds of the model *)

MaxT == 3          \* largest horizon
MaxM == 2          \* largest number of servers
MaxQ == 2          \* largest waiting-room size Ni
MaxRate == 2       \* largest arrival / service rate
MaxZeroGaps == 1   \* zero inter-arrival times in one random stream
TapeLen == 6       \* paired run: length of the recorded random stream

(* Program constants *)

ARRIVAL == 0
DEPARTURE == 1
None == -1         \* Python's None in an event payload
One == 2           \* the literal 1.0 of the probability-sum validation
Tol == 1           \* the literal 1e-9 of the probability-sum validation

\* What random.random() returns.
Uniform == 0 .. (One - 1)

----------------------------------------------------------------------------
(* Helpers *)

RECURSIVE SumSeq(_)
SumSeq(s) == IF s = <<>> THEN 0 ELSE Head(s) + SumSeq(Tail(s))

Abs(x) == IF x < 0 THEN -x ELSE x

\* random.expovariate(rate) on the uniform grid point u: nonnegative,
\* nondecreasing in u, shrinking with the rate.
exp_time(rate, u) == (u * MaxRate) \div rate

\* An event is the tuple (time, kind, payload).
Event(t, k, p) == [time |-> t, kind |-> k, payload |-> p]

TupleLess_KindFirst(a, b) ==
    \/ a.kind < b.kind
    \/ a.kind = b.kind /\ a.time < b.time
    \/ a.kind = b.kind /\ a.time = b.time /\ a.payload < b.payload

TupleLess_DepartureFirst(a, b) ==
    \/ a.time < b.time
    \/ a.time = b.time /\ a.kind > b.kind
    \/ a.time = b.time /\ a.kind = b.kind /\ a.payload < b.payload

\* Python's tuple order on (time, kind, payload).
TupleLess(a, b) ==
    \/ a.time < b.time
    \/ a.time = b.time /\ a.kind < b.kind
    \/ a.time = b.time /\ a.kind = b.kind /\ a.payload < b.payload

\* The heap is kept as the sequence of pending events in the order they
\* were pushed; heappop removes the least tuple.
heappush(h, e) == Append(h, e)

PopIndex(h) ==
    CHOOSE i \in 1..Len(h) :
        /\ \A j \in 1..Len(h) : ~TupleLess(h[j], h[i])
        /\ \A j \in 1..(i-1) : TupleLess(h[i], h[j])

RemoveAt_Front(s, i) == Tail(s)

RemoveAt(s, i) == SubSeq(s, 1, i-1) \o SubSeq(s, i+1, Len(s))

heappop(h) == [item |-> h[PopIndex(h)], rest |-> RemoveAt(h, PopIndex(h))]


NoEvent == Event(None, None, None)


----------------------------------------------------------------------------
(* run_mm1n (mm1n.py) *)

\* The locals before the function body has run.
MM_Blank ==
    [pc |-> "init", now |-> 0, server_busy |-> FALSE, in_system |-> 0,
     queue |-> <<>>, served |-> 0, dropped |-> 0, total_wait |-> 0,
     events |-> <<>>, seeded |-> FALSE,
     \* history: Arrival events dispatched, the last dispatched event and
     \* what became of it ("started", "queued", "dropped", "departed"), and
     \* the time at which the customer now in service began service
     arrivals |-> 0, last |-> NoEvent, fate |-> "none", began |-> None]

\* Lines 14-19: the argument checks that raise ValueError.
MM_Invalid(a) ==
    \/ a.lambda_rate <= 0 \/ a.mu_rate <= 0
    \/ a.capacity < 1
    \/ a.horizon <= 0

\* Lines 14-35: validation, then the initial locals and the first arrival,
\* drawn with uniform u.
MM_Start(u) ==
    /\ mm.pc = "init"
    /\ IF MM_Invalid(args_mm)
       THEN mm' = [mm EXCEPT !.pc = "error"]
       ELSE mm' = [mm EXCEPT
                !.pc = "loop", !.seeded = TRUE,
                !.events = heappush(<<>>,
                    Event(exp_time(args_mm.lambda_rate, u), ARRIVAL, None))]

MM_PastHorizon_Inclusive(time) == time >= args_mm.horizon

\* Line 39: the hard cutoff test on the popped event.
MM_PastHorizon(time) == time > args_mm.horizon

\* Lines 37-41: the loop ends, either because the heap is empty or because
\* the popped event lies past the horizon.
MM_Exit ==
    /\ mm.pc = "loop"
    /\ IF mm.events = <<>>
       THEN mm' = [mm EXCEPT !.pc = "done"]
       ELSE /\ MM_PastHorizon(heappop(mm.events).item.time)
            /\ mm' = [mm EXCEPT !.pc = "done",
                                !.events = heappop(mm.events).rest,
                                !.now = args_mm.horizon]

MM_Admits_OffByOne(in_system) == in_system <= args_mm.capacity

\* Line 48: admission test.
MM_Admits(in_system) == in_system < args_mm.capacity

\* Lines 38-58: an Arrival is popped and dispatched.  uA is the uniform
\* behind the next inter-arrival time, uS the one behind the service time
\* (drawn only when the customer starts service at once).
MM_Arrival(uA, uS) ==
    /\ mm.pc = "loop" /\ mm.events # <<>>
    /\ LET p    == heappop(mm.events)
           time == p.item.time
           ev1  == heappush(p.rest,
                     Event(time + exp_time(args_mm.lambda_rate, uA), ARRIVAL, None))
       IN  /\ ~MM_PastHorizon(time)
           /\ p.item.kind = ARRIVAL
           /\ IF MM_Admits(mm.in_system)
              THEN IF ~mm.server_busy
                   THEN mm' = [mm EXCEPT
                          !.now = time, !.arrivals = @ + 1, !.last = p.item,
                          !.fate = "started", !.began = time,
                          !.in_system = @ + 1,
                          !.server_busy = TRUE,
                          !.events = heappush(ev1,
                              Event(time + exp_time(args_mm.mu_rate, uS),
                                    DEPARTURE, time))]
                   ELSE mm' = [mm EXCEPT
                          !.now = time, !.arrivals = @ + 1, !.last = p.item,
                          !.fate = "queued",
                          !.in_system = @ + 1,
                          !.queue = Append(@, time),
                          !.events = ev1]
              ELSE mm' = [mm EXCEPT
                          !.now = time, !.arrivals = @ + 1, !.last = p.item,
                          !.fate = "dropped",
                          !.dropped = @ + 1,
                          !.events = ev1]

\* Lines 38-43, 60-71: a Departure is popped and dispatched; uS is the
\* uniform behind the next service time (drawn only if a customer waits).
MM_Departure(uS) ==
    /\ mm.pc = "loop" /\ mm.events # <<>>
    /\ LET p    == heappop(mm.events)
           time == p.item.time
       IN  /\ ~MM_PastHorizon(time)
           /\ p.item.kind = DEPARTURE
           /\ IF mm.queue # <<>>
              THEN mm' = [mm EXCEPT
                          !.now = time, !.last = p.item, !.fate = "departed",
                          !.began = time,
                          !.served = @ + 1,
                          !.total_wait = @ + (time - p.item.payload),
                          !.in_system = @ - 1,
                          !.queue = Tail(@),
                          !.events = heappush(p.rest,
                              Event(time + exp_time(args_mm.mu_rate, uS),
                                    DEPARTURE, Head(mm.queue)))]
              ELSE mm' = [mm EXCEPT
                          !.now = time, !.last = p.item, !.fate = "departed",
                          !.began = None,
                          !.served = @ + 1,
                          !.total_wait = @ + (time - p.item.payload),
                          !.in_system = @ - 1,
                          !.server_busy = FALSE,
                          !.events = p.rest]

\* Lines 73-74: the returned tuple (served, dropped, avg_wait, now); the
\* average is kept as the exact fraction total_wait / served.
MM_Result ==
    [served |-> mm.served, dropped |-> mm.dropped,
     avg_wait |-> IF mm.served # 0 THEN <<mm.total_wait, mm.served>> ELSE <<0, 1>>,
     end_time |-> mm.now]

----------------------------------------------------------------------------
(* Server and run_sim (simulator.py) *)

\* Lines 20-23: Server.__init__ raises ValueError.
Server_Invalid(Ni_queue, mu) == Ni_queue < 0 \/ mu <= 0

\* Lines 24-28: a freshly constructed Server.
Server(Ni_queue, mu) ==
    [queue |-> <<>>, busy |-> FALSE, capacity |-> Ni_queue + 1, mu |-> mu,
     in_system |-> 0]

\* The locals before the function body has run.
SIM_Blank ==
    [pc |-> "init", now |-> 0, servers |-> <<>>, served |-> 0, dropped |-> 0,
     total_wait |-> 0, total_service |-> 0, events |-> <<>>,
     seeded |-> FALSE,
     \* history: Arrival events dispatched, the last dispatched event, the
     \* server it was routed to or left, and what became of it
     arrivals |-> 0, last |-> NoEvent, chosen |-> 0, fate |-> "none"]

\* Lines 31-41: the argument checks made before the stream is seeded.
SIM_Invalid(a) ==
    \/ a.T <= 0
    \/ ~(Len(a.queues) = Len(a.mus) /\ Len(a.mus) = Len(a.probs))
    \/ \E i \in 1..Len(a.probs) : a.probs[i] < 0
    \/ Abs(SumSeq(a.probs) - One) > Tol
    \/ a.lam <= 0

\* Line 44: the construction of some server raises.
SIM_ServerInvalid(a) ==
    \E i \in 1..Len(a.queues) : Server_Invalid(a.queues[i], a.mus[i])

\* Lines 31-44: the call raises ValueError.
SIM_Raises(a) == IF SIM_Invalid(a) THEN TRUE ELSE SIM_ServerInvalid(a)

\* Lines 31-52: validation, seeding, construction of the servers, then the
\* first arrival, drawn with uniform u and pushed unconditionally.
SIM_Start(u) ==
    /\ sim.pc = "init"
    /\ IF SIM_Invalid(args_sim)
       THEN sim' = [sim EXCEPT !.pc = "error"]
       ELSE IF SIM_ServerInvalid(args_sim)
       THEN sim' = [sim EXCEPT !.pc = "error", !.seeded = TRUE]
       ELSE sim' = [sim EXCEPT
                !.pc = "loop", !.seeded = TRUE,
                !.servers = [i \in 1..Len(args_sim.queues) |->
                                Server(args_sim.queues[i], args_sim.mus[i])],
                !.events = heappush(<<>>,
                    Event(exp_time(args_sim.lam, u), ARRIVAL, None))]

\* Lines 54, 104-106: the heap is empty, the loop ends.
SIM_Finish ==
    /\ sim.pc = "loop"
    /\ sim.events = <<>>
    /\ sim' = [sim EXCEPT !.pc = "done"]

\* Line 59: the next arrival is pushed only if it falls within T.
SIM_Schedules(next_time) == next_time <= args_sim.T

\* Lines 62-73: the router.  chosen starts at 0 (here: the first server)
\* and becomes the first index whose cumulative probability exceeds r.
Cumulative(probs, i) == SumSeq(SubSeq(probs, 1, i))

Route(probs, r) ==
    IF \E i \in 1..Len(probs) : r < Cumulative(probs, i)
    THEN CHOOSE i \in 1..Len(probs) :
            /\ r < Cumulative(probs, i)
            /\ \A j \in 1..(i-1) : ~(r < Cumulative(probs, j))
    ELSE 1

SIM_Admits_OffByOne(srv) == srv.in_system <= srv.capacity

\* Line 76: admission test.
SIM_Admits(srv) == srv.in_system < srv.capacity

SrvAdmit_Front(srv, now) ==
    IF ~srv.busy
    THEN [srv EXCEPT !.in_system = @ + 1, !.busy = TRUE]
    ELSE [srv EXCEPT !.in_system = @ + 1, !.queue = <<now>> \o @]

\* Lines 77-85: the server's state after it admitted an arrival at `now`.
SrvAdmit(srv, now) ==
    IF ~srv.busy
    THEN [srv EXCEPT !.in_system = @ + 1, !.busy = TRUE]
    ELSE [srv EXCEPT !.in_system = @ + 1, !.queue = Append(@, now)]

SrvRelease_StaysBusy(srv) ==
    IF srv.queue # <<>>
    THEN [srv EXCEPT !.in_system = @ - 1, !.queue = Tail(@)]
    ELSE [srv EXCEPT !.in_system = @ - 1]

SrvRelease_KeepsCount(srv) ==
    IF srv.queue # <<>>
    THEN [srv EXCEPT !.queue = Tail(@)]
    ELSE [srv EXCEPT !.busy = FALSE]

\* Lines 92-102: the server's state after a departure.
SrvRelease(srv) ==
    IF srv.queue # <<>>
    THEN [srv EXCEPT !.in_system = @ - 1, !.queue = Tail(@)]
    ELSE [srv EXCEPT !.in_system = @ - 1, !.busy = FALSE]

\* Lines 55-87: an Arrival is popped and dispatched.  uA is the uniform
\* behind the next inter-arrival time, r the routing draw, uS the uniform
\* behind the service time (drawn only when service starts at once).
SIM_Arrival(uA, r, uS) ==
    /\ sim.pc = "loop" /\ sim.events # <<>>
    /\ LET p         == heappop(sim.events)
           time      == p.item.time
           next_time == time + exp_time(args_sim.lam, uA)
           ev1       == IF SIM_Schedules(next_time)
                        THEN heappush(p.rest, Event(next_time, ARRIVAL, None))
                        ELSE p.rest
           chosen    == Route(args_sim.probs, r)
           srv       == sim.servers[chosen]
           service   == exp_time(srv.mu, uS)
       IN  /\ p.item.kind = ARRIVAL
           /\ IF SIM_Admits(srv)
              THEN IF ~srv.busy
                   THEN sim' = [sim EXCEPT
                          !.now = time, !.arrivals = @ + 1, !.last = p.item,
                          !.chosen = chosen, !.fate = "started",
                          !.servers[chosen] = SrvAdmit(srv, time),
                          !.total_service = @ + service,
                          !.events = heappush(ev1,
                              Event(time + service, DEPARTURE, chosen))]
                   ELSE sim' = [sim EXCEPT
                          !.now = time, !.arrivals = @ + 1, !.last = p.item,
                          !.chosen = chosen, !.fate = "queued",
                          !.servers[chosen] = SrvAdmit(srv, time),
                          !.events = ev1]
              ELSE sim' = [sim EXCEPT
                          !.now = time, !.arrivals = @ + 1, !.last = p.item,
                          !.chosen = chosen, !.fate = "dropped",
                          !.dropped = @ + 1,
                          !.events = ev1]

\* Lines 55-56, 89-102: a Departure is popped and dispatched; uS is the
\* uniform behind the next service time (drawn only if a customer waits).
SIM_Departure(uS) ==
    /\ sim.pc = "loop" /\ sim.events # <<>>
    /\ LET p       == heappop(sim.events)
           time    == p.item.time
           srv_idx == p.item.payload
           srv     == sim.servers[srv_idx]
           service == exp_time(srv.mu, uS)
       IN  /\ p.item.kind = DEPARTURE
           /\ IF srv.queue # <<>>
              THEN sim' = [sim EXCEPT
                          !.now = time, !.last = p.item,
                          !.chosen = srv_idx, !.fate = "departed",
                          !.served = @ + 1,
                          !.servers[srv_idx] = SrvRelease(srv),
                          !.total_wait = @ + (time - Head(srv.queue)),
                          !.total_service = @ + service,
                          !.events = heappush(p.rest,
                              Event(time + service, DEPARTURE, srv_idx))]
              ELSE sim' = [sim EXCEPT
                          !.now = time, !.last = p.item,
                          !.chosen = srv_idx, !.fate = "departed",
                          !.served = @ + 1,
                          !.servers[srv_idx] = SrvRelease(srv),
                          !.events = p.rest]

\* Lines 104-106: the returned tuple; the averages are kept as exact
\* fractions over served.
SIM_Result ==
    [served |-> sim.served, dropped |-> sim.dropped, end_time |-> sim.now,
     avg_wait |-> IF sim.served # 0 THEN <<sim.total_wait, sim.served>> ELSE <<0, 1>>,
     avg_service |-> IF sim.served # 0 THEN <<sim.total_service, sim.served>>
                     ELSE <<0, 1>>]

----------------------------------------------------------------------------
(* Inputs *)

Rates == 1..MaxRate

MM_ValidArgs ==
    [lambda_rate : Rates, mu_rate : Rates, capacity : 1..(MaxQ + 1),
     horizon : 1..MaxT]

\* One argument out of range, for each argument in turn.
MM_FaultyArgs ==
    UNION { { [a EXCEPT !.lambda_rate = 0], [a EXCEPT !.mu_rate = 0],
              [a EXCEPT !.capacity = 0], [a EXCEPT !.horizon = 0] }
            : a \in MM_ValidArgs }

\* Probability vectors that pass the validation of lines 36-39.
ValidProbs(M) ==
    { q \in [1..M -> 0..(One + Tol)] : Abs(SumSeq(q) - One) <= Tol }

SIM_ValidArgs ==
    UNION { [T : 1..MaxT, lam : Rates, probs : ValidProbs(M),
             queues : [1..M -> 0..MaxQ], mus : [1..M -> Rates]]
            : M \in 1..MaxM }

\* One argument out of range or of the wrong length, for each in turn,
\* applied to the configurations with the shortest horizon.
SIM_FaultyArgs ==
    UNION { { [a EXCEPT !.T = 0], [a EXCEPT !.lam = 0],
              [a EXCEPT !.probs[1] = -1],
              [a EXCEPT !.probs[1] = @ + Tol + Tol + 1],
              [a EXCEPT !.queues[1] = -1], [a EXCEPT !.mus[1] = 0],
              [a EXCEPT !.queues = Append(@, 0)],
              [a EXCEPT !.mus = Append(@, 1)] }
            : a \in { b \in SIM_ValidArgs : b.T = 1 } }

\* The configuration of run_mm1n that corresponds to a one-server run_sim.
MM_ArgsOf(a) ==
    [lambda_rate |-> a.lam, mu_rate |-> a.mus[1],
     capacity |-> a.queues[1] + 1, horizon |-> a.T]

MM_Idle == [lambda_rate |-> 1, mu_rate |-> 1, capacity |-> 1, horizon |-> 1]
SIM_Idle == [T |-> 1, lam |-> 1, probs |-> <<One>>, queues |-> <<0>>, mus |-> <<1>>]

\* The inter-arrival uniforms the stream may yield: a stream of zero
\* inter-arrival times would keep an event loop running for ever, so a
\* stream yields at most MaxZeroGaps of them.
GapDraws(rate) == { u \in Uniform : exp_time(rate, u) > 0 \/ zeroGaps > 0 }

GapDrawn(rate, u) ==
    zeroGaps' = IF exp_time(rate, u) = 0 THEN zeroGaps - 1 ELSE zeroGaps

----------------------------------------------------------------------------
(* One program run, with free draws *)

Init ==
    /\ zeroGaps = MaxZeroGaps
    /\ tape = <<>>
    /\ pos = [mm |-> 0, sim |-> 0]
    /\ mm = MM_Blank
    /\ sim = SIM_Blank
    /\ \/ /\ engine = "mm1n"
          /\ args_mm \in MM_ValidArgs \cup MM_FaultyArgs
          /\ args_sim = SIM_Idle
       \/ /\ engine = "sim"
          /\ args_sim \in SIM_ValidArgs \cup SIM_FaultyArgs
          /\ args_mm = MM_Idle

MMFrame == UNCHANGED <<engine, tape, pos, args_mm, args_sim, sim>>
SimFrame == UNCHANGED <<engine, tape, pos, args_mm, args_sim, mm>>

MMStart ==
    /\ engine = "mm1n"
    /\ IF MM_Invalid(args_mm)
       THEN MM_Start(0) /\ UNCHANGED zeroGaps     \* raises before any draw
       ELSE \E u \in GapDraws(args_mm.lambda_rate) :
                MM_Start(u) /\ GapDrawn(args_mm.lambda_rate, u)
    /\ MMFrame

MMArrival ==
    /\ engine = "mm1n"
    /\ mm.pc = "loop"
    /\ \E uA \in GapDraws(args_mm.lambda_rate), uS \in Uniform :
            MM_Arrival(uA, uS) /\ GapDrawn(args_mm.lambda_rate, uA)
    /\ MMFrame

MMDeparture ==
    /\ engine = "mm1n"
    /\ \E uS \in Uniform : MM_Departure(uS)
    /\ UNCHANGED zeroGaps
    /\ MMFrame

MMExit ==
    /\ engine = "mm1n"
    /\ MM_Exit
    /\ UNCHANGED zeroGaps
    /\ MMFrame

SimStart ==
    /\ engine = "sim"
    /\ IF SIM_Raises(args_sim)
       THEN SIM_Start(0) /\ UNCHANGED zeroGaps    \* raises before any draw
       ELSE \E u \in GapDraws(args_sim.lam) :
                SIM_Start(u) /\ GapDrawn(args_sim.lam, u)
    /\ SimFrame

SimArrival ==
    /\ engine = "sim"
    /\ sim.pc = "loop"
    /\ \E uA \in GapDraws(args_sim.lam), r \in Uniform, uS \in Uniform :
            SIM_Arrival(uA, r, uS) /\ GapDrawn(args_sim.lam, uA)
    /\ SimFrame

SimDeparture ==
    /\ engine = "sim"
    /\ \E uS \in Uniform : SIM_Departure(uS)
    /\ UNCHANGED zeroGaps
    /\ SimFrame

SimFinish ==
    /\ engine = "sim"
    /\ SIM_Finish
    /\ UNCHANGED zeroGaps
    /\ SimFrame

Next ==
    \/ MMStart \/ MMArrival \/ MMDeparture \/ MMExit
    \/ SimStart \/ SimArrival \/ SimDeparture \/ SimFinish

Spec == Init /\ [][Next]_vars

\* The program is sequential: whenever it can take a step, it does.
FairSpec == Spec /\ WF_vars(Next)

----------------------------------------------------------------------------
(* A paired run: run_mm1n, then run_sim with one server and probs = [1.0], *)
(* both seeded alike, so both read the same random stream from its start. *)

PairInit ==
    /\ engine = "both"
    /\ zeroGaps = 0
    /\ tape \in [1..TapeLen -> Uniform]
    /\ pos = [mm |-> 0, sim |-> 0]
    /\ mm = MM_Blank
    /\ sim = SIM_Blank
    /\ args_sim \in { a \in SIM_ValidArgs : a.probs = <<One>> }
    /\ args_mm = MM_ArgsOf(args_sim)

\* The k-th value after position n of the stream (0 once the recorded
\* stream is used up; the guards keep such a value from being used).
Drawn(n, k) == IF n + k <= Len(tape) THEN tape[n + k] ELSE 0

MMTakes(n) ==
    /\ pos.mm + n <= Len(tape)
    /\ pos' = [pos EXCEPT !.mm = @ + n]
    /\ UNCHANGED <<engine, zeroGaps, tape, args_mm, args_sim, sim>>

SimTakes(n) ==
    /\ mm.pc = "done"
    /\ pos.sim + n <= Len(tape)
    /\ pos' = [pos EXCEPT !.sim = @ + n]
    /\ UNCHANGED <<engine, zeroGaps, tape, args_mm, args_sim, mm>>

PairMMStart ==
    /\ MM_Start(Drawn(pos.mm, 1))
    /\ MMTakes(1)

\* An arrival draws the next inter-arrival time and, if the customer
\* starts service at once, a service time.
PairMMArrival ==
    /\ MM_Arrival(Drawn(pos.mm, 1), Drawn(pos.mm, 2))
    /\ MMTakes(IF MM_Admits(mm.in_system) /\ ~mm.server_busy THEN 2 ELSE 1)

PairMMDeparture ==
    /\ MM_Departure(Drawn(pos.mm, 1))
    /\ MMTakes(IF mm.queue # <<>> THEN 1 ELSE 0)

PairMMExit ==
    /\ MM_Exit
    /\ MMTakes(0)

PairSimStart ==
    /\ SIM_Start(Drawn(pos.sim, 1))
    /\ SimTakes(1)

\* An arrival draws the next inter-arrival time, the routing uniform and,
\* if the customer starts service at once, a service time.
PairSimArrival ==
    /\ SIM_Arrival(Drawn(pos.sim, 1), Drawn(pos.sim, 2), Drawn(pos.sim, 3))
    /\ LET srv == sim.servers[Route(args_sim.probs, Drawn(pos.sim, 2))]
       IN  SimTakes(IF SIM_Admits(srv) /\ ~srv.busy THEN 3 ELSE 2)

PairSimDeparture ==
    /\ SIM_Departure(Drawn(pos.sim, 1))
    /\ SimTakes(IF sim.servers[heappop(sim.events).item.payload].queue # <<>>
                THEN 1 ELSE 0)

PairSimFinish ==
    /\ SIM_Finish
    /\ SimTakes(0)

PairNext ==
    \/ PairMMStart \/ PairMMArrival \/ PairMMDeparture \/ PairMMExit
    \/ PairSimStart \/ PairSimArrival \/ PairSimDeparture \/ PairSimFinish

PairSpec == PairInit /\ [][PairNext]_vars

----------------------------------------------------------------------------
(* The router of run_sim on its own: every validated probability vector
   against every uniform draw.  The draw is recorded on the tape and the
   index the router picks in sim.chosen. *)

RouteInit ==
    /\ engine = "route"
    /\ zeroGaps = 0
    /\ tape = <<>>
    /\ pos = [mm |-> 0, sim |-> 0]
    /\ mm = MM_Blank
    /\ sim = SIM_Blank
    /\ args_sim \in SIM_ValidArgs
    /\ args_mm = MM_Idle

RouteDraw ==
    /\ engine = "route"
    /\ tape = <<>>
    /\ \E r \in Uniform :
          /\ tape' = <<r>>
          /\ sim' = [sim EXCEPT !.chosen = Route(args_sim.probs, r)]
    /\ UNCHANGED <<engine, zeroGaps, pos, args_mm, mm, args_sim>>

RouteSpec == RouteInit /\ [][RouteDraw]_vars

----------------------------------------------------------------------------
(* Properties *)

RECURSIVE InSystem(_)
InSystem(servers) ==
    IF servers = <<>> THEN 0
    ELSE Head(servers).in_system + InSystem(Tail(servers))

Max(a, b) == IF a >= b THEN a ELSE b

Pending(h) == { h[i] : i \in 1..Len(h) }

Departures(h) == SelectSeq(h, LAMBDA e : e.kind = DEPARTURE)

Sorted(q) == \A k \in 1..(Len(q) - 1) : q[k] <= q[k + 1]

\* C1: in both engines, after every dispatched event and for every
\* server, 0 <= in_system <= capacity, busy holds exactly when
\* in_system > 0, and the waiting list has max(0, in_system - 1) entries.
Thm_C1_ServerInvariant ==
    /\ /\ 0 <= mm.in_system /\ mm.in_system <= args_mm.capacity
       /\ mm.server_busy = (mm.in_system > 0)
       /\ Len(mm.queue) = Max(0, mm.in_system - 1)
    /\ \A i \in 1..Len(sim.servers) :
         LET srv == sim.servers[i]
         IN  /\ 0 <= srv.in_system /\ srv.in_system <= srv.capacity
             /\ srv.busy = (srv.in_system > 0)
             /\ Len(srv.queue) = Max(0, srv.in_system - 1)

\* A server filled to a capacity of 2 (one in service, one waiting) while
\* the other server is in use as well.
Wit_C1_FullServer ==
    \E i, j \in 1..Len(sim.servers) :
        /\ i # j
        /\ sim.servers[i].capacity = 2 /\ sim.servers[i].in_system = 2
        /\ sim.servers[j].in_system > 0
        /\ sim.served > 0

\* C2 as stated: when the event loop of either engine has terminated,
\* served + dropped >= the number of Arrival events dispatched.
Cex_C2_CountsCoverArrivals ==
    /\ mm.pc = "done" => mm.served + mm.dropped >= mm.arrivals
    /\ sim.pc = "done" => sim.served + sim.dropped >= sim.arrivals

\* C2 amended: when the event loop has terminated, served + dropped is at
\* most the number of Arrival events dispatched; the difference is the
\* number of customers still in the system, which is 0 in run_sim (the
\* heap is drained) and may be positive in run_mm1n (hard cutoff).
Thm_C2_CountsAtTermination ==
    /\ mm.pc = "done" =>
          /\ mm.served + mm.dropped <= mm.arrivals
          /\ mm.arrivals - (mm.served + mm.dropped) = mm.in_system
    /\ sim.pc = "done" => sim.served + sim.dropped = sim.arrivals

\* run_mm1n cut off with a customer in service and one waiting, after a
\* service and a drop.
Wit_C2_CutoffLeavesCustomers ==
    /\ mm.pc = "done"
    /\ mm.in_system = 2
    /\ mm.served > 0 /\ mm.dropped > 0

\* C3: in both engines, after every dispatched event, the number of
\* Arrival events dispatched equals served + dropped + the customers held
\* by the servers.
Thm_C3_Conservation ==
    /\ mm.arrivals = mm.served + mm.dropped + mm.in_system
    /\ sim.arrivals = sim.served + sim.dropped + InSystem(sim.servers)

\* Customers served, dropped and held (on both servers) at the same time.
Wit_C3_AllThreeKinds ==
    /\ sim.served > 0 /\ sim.dropped > 0
    /\ \A i \in 1..Len(sim.servers) : sim.servers[i].in_system > 0
    /\ Len(sim.servers) = MaxM

\* C4: under the hard cutoff of run_mm1n no event with time > horizon is
\* dispatched; a popped event with time > horizon ends the loop and leaves
\* served, dropped, total_wait, in_system, busy and the waiting list as
\* they were, with now = horizon; an event with time = horizon is still
\* dispatched.
Thm_C4_HardCutoff ==
    [][ (mm.pc = "loop" /\ mm.events # <<>>) =>
          LET top == heappop(mm.events).item
          IN  /\ top.time > args_mm.horizon =>
                    /\ mm'.pc = "done"
                    /\ mm'.now = args_mm.horizon
                    /\ mm'.last = mm.last /\ mm'.arrivals = mm.arrivals
                    /\ mm'.served = mm.served /\ mm'.dropped = mm.dropped
                    /\ mm'.total_wait = mm.total_wait
                    /\ mm'.in_system = mm.in_system
                    /\ mm'.server_busy = mm.server_busy
                    /\ mm'.queue = mm.queue
              /\ top.time <= args_mm.horizon =>
                    /\ mm'.pc = "loop"
                    /\ mm'.last = top /\ mm'.now = top.time
                    /\ mm'.arrivals + mm'.served = mm.arrivals + mm.served + 1
              /\ mm'.last.time <= args_mm.horizon
              /\ mm'.now <= args_mm.horizon
      ]_mm

\* The loop has ended after dispatching an event at time = horizon.
Wit_C4_DispatchedAtHorizon ==
    /\ mm.pc = "done"
    /\ mm.last.time = args_mm.horizon
    /\ mm.now = args_mm.horizon
    /\ mm.in_system > 0

\* C5 as stated: in run_sim no Arrival event with time > T is ever
\* enqueued or dispatched, the first arrival included.
Cex_C5_NoArrivalAfterT ==
    /\ \A e \in Pending(sim.events) : e.kind = ARRIVAL => e.time <= args_sim.T
    /\ sim.last.kind = ARRIVAL => sim.last.time <= args_sim.T

SimRuns == engine = "sim" /\ ~SIM_Raises(args_sim)

SimIdle ==
    \A i \in 1..Len(sim.servers) :
        /\ ~sim.servers[i].busy
        /\ sim.servers[i].in_system = 0
        /\ sim.servers[i].queue = <<>>

\* C6: with a random stream that yields only finitely many zero
\* inter-arrival times, run_sim terminates; at termination the event queue
\* is empty, every server is idle, served is the number of admitted
\* arrivals and served + dropped the number of arrivals dispatched.
Thm_C6_DrainTerminates ==
    /\ <>(SimRuns => sim.pc = "done")
    /\ [](sim.pc = "done" =>
            /\ sim.events = <<>>
            /\ SimIdle
            /\ sim.served = sim.arrivals - sim.dropped)

\* A drained run that served on every server and dropped an arrival.
Wit_C6_Drained ==
    /\ sim.pc = "done"
    /\ Len(sim.servers) = MaxM
    /\ sim.served >= MaxM /\ sim.dropped > 0
    /\ sim.now > args_sim.T

\* Equality of two averages kept as fractions <<total, count>>.
SameAverage(a, b) == a[1] * b[2] = b[1] * a[2]

\* C7 as stated: with one server, probs = [1.0] and the same rates,
\* capacity, horizon and random stream, run_sim returns the served,
\* dropped, endTime and averageWait that run_mm1n returns.
Cex_C7_SingleServerEquivalence ==
    (mm.pc = "done" /\ sim.pc = "done") =>
        /\ SIM_Result.served = MM_Result.served
        /\ SIM_Result.dropped = MM_Result.dropped
        /\ SIM_Result.end_time = MM_Result.end_time
        /\ SameAverage(SIM_Result.avg_wait, MM_Result.avg_wait)

\* C8 as stated: in run_sim a server whose routing probability is 0 is
\* never chosen: its in_system stays 0 and no Departure is ever scheduled
\* for it.
Cex_C8_ZeroProbabilityServer ==
    \A i \in 1..Len(sim.servers) :
        args_sim.probs[i] = 0 =>
            /\ sim.servers[i].in_system = 0
            /\ ~\E e \in Pending(sim.events) : e.kind = DEPARTURE /\ e.payload = i
            /\ ~(sim.last.kind = ARRIVAL /\ sim.chosen = i)

\* C9: on a time tie the Arrival is dispatched before the Departure, in
\* both engines: no Departure is dispatched while an Arrival with the same
\* (or an earlier) time is pending; and an Arrival that finds its server at
\* capacity is dropped even though a Departure of that server is pending
\* at the same instant.
Thm_C9_ArrivalBeforeDeparture ==
    [][ /\ mm'.served = mm.served + 1 =>
              /\ mm'.last.kind = DEPARTURE
              /\ \A e \in Pending(mm.events) :
                    e.kind = ARRIVAL => e.time > mm'.last.time
        /\ ( /\ mm'.arrivals = mm.arrivals + 1
             /\ mm.in_system = args_mm.capacity
             /\ \E d \in Pending(mm.events) :
                    d.kind = DEPARTURE /\ d.time = mm'.last.time )
           => /\ mm'.fate = "dropped" /\ mm'.dropped = mm.dropped + 1
              /\ mm'.in_system = mm.in_system
        /\ sim'.served = sim.served + 1 =>
              /\ sim'.last.kind = DEPARTURE
              /\ \A e \in Pending(sim.events) :
                    e.kind = ARRIVAL => e.time > sim'.last.time
        /\ ( /\ sim'.arrivals = sim.arrivals + 1
             /\ ~SIM_Admits(sim.servers[sim'.chosen])
             /\ \E d \in Pending(sim.events) :
                    /\ d.kind = DEPARTURE /\ d.payload = sim'.chosen
                    /\ d.time = sim'.last.time )
           => /\ sim'.fate = "dropped" /\ sim'.dropped = sim.dropped + 1
              /\ sim'.servers = sim.servers
      ]_vars

\* An arrival was just dropped at a server whose Departure is pending at
\* the very same time.
Wit_C9_DroppedOnTie ==
    /\ sim.fate = "dropped"
    /\ sim.last.kind = ARRIVAL
    /\ \E d \in Pending(sim.events) :
            /\ d.kind = DEPARTURE /\ d.payload = sim.chosen
            /\ d.time = sim.last.time
    /\ sim.served > 0

\* The routing probabilities are exact: all positive, summing to 1.0.
ExactProbs ==
    /\ SumSeq(args_sim.probs) = One
    /\ \A i \in 1..Len(args_sim.probs) : args_sim.probs[i] > 0

\* C10 as stated: two pending Departure events of run_sim with the same
\* time are dispatched in the order in which they were enqueued, whatever
\* their server indices: a dispatched Departure was enqueued before every
\* other Departure pending with the same time.  (Stated for exact routing
\* probabilities, so that every routing choice is an ordinary one.)
Cex_C10_DeparturesInEnqueueOrder ==
    [][ (ExactProbs /\ sim'.served = sim.served + 1) =>
            LET i == CHOOSE k \in 1..Len(sim.events) : sim.events[k] = sim'.last
            IN  \A j \in 1..(i - 1) :
                    ~( /\ sim.events[j].kind = DEPARTURE
                       /\ sim.events[j].time = sim'.last.time )
      ]_vars

\* C12: pure-loss boundary.  A server built with queue capacity 0
\* (capacity 1; capacity = 1 in run_mm1n) has an empty waiting list in
\* every reachable state, and every Arrival dispatched to it while it is
\* busy is dropped.
Thm_C12_PureLoss ==
    [][ /\ args_mm.capacity = 1 =>
              /\ mm'.queue = <<>>
              /\ (mm'.arrivals = mm.arrivals + 1 /\ mm.server_busy)
                 => /\ mm'.fate = "dropped"
                    /\ mm'.dropped = mm.dropped + 1
        /\ \A i \in 1..Len(sim'.servers) :
              args_sim.queues[i] = 0 =>
                 /\ sim'.servers[i].capacity = 1
                 /\ sim'.servers[i].queue = <<>>
                 /\ ( /\ sim'.arrivals = sim.arrivals + 1
                      /\ sim'.chosen = i
                      /\ sim.servers[i].busy )
                    => /\ sim'.fate = "dropped"
                       /\ sim'.dropped = sim.dropped + 1
      ]_vars

\* An arrival was just dropped at a busy server without waiting room while
\* a customer waits at the other server, which has one.
Wit_C12_DroppedWithoutWaitingRoom ==
    /\ sim.fate = "dropped" /\ sim.last.kind = ARRIVAL
    /\ args_sim.queues[sim.chosen] = 0
    /\ sim.servers[sim.chosen].busy
    /\ \E j \in 1..Len(sim.servers) :
          j # sim.chosen /\ sim.servers[j].queue # <<>>

\* C13 as stated: in both engines the amount added to the wait total for a
\* served customer is the time from its arrival to the start of its
\* service, so a customer whose service started on arrival adds 0.
\* run_mm1n adds the amount when the customer departs, run_sim when its
\* service starts.
Cex_C13_WaitIsArrivalToServiceStart ==
    [][ /\ mm'.served = mm.served + 1 =>
              mm'.total_wait - mm.total_wait = mm.began - mm'.last.payload
        /\ mm'.served = mm.served => mm'.total_wait = mm.total_wait
        /\ (sim'.arrivals = sim.arrivals + 1 /\ sim'.fate = "started") =>
              sim'.total_wait = sim.total_wait
        /\ sim'.served = sim.served + 1 =>
              LET srv == sim.servers[sim'.last.payload]
              IN  sim'.total_wait - sim.total_wait =
                    IF srv.queue # <<>>
                    THEN sim'.last.time - Head(srv.queue) ELSE 0
        /\ sim'.served = sim.served => sim'.total_wait = sim.total_wait
      ]_vars

\* C14 as stated: for a configuration that violates a precondition the
\* engine reports an error before the simulation starts: no event is
\* scheduled or dispatched, no simulation state (the random stream
\* included) is changed, and no result is returned.
Cex_C14_FailFast ==
    /\ (engine = "mm1n" /\ MM_Invalid(args_mm)) =>
          mm \in {MM_Blank, [MM_Blank EXCEPT !.pc = "error"]}
    /\ (engine = "sim" /\ SIM_Raises(args_sim)) =>
          sim \in {SIM_Blank, [SIM_Blank EXCEPT !.pc = "error"]}

\* C15 as stated: for every validated probability vector and every uniform
\* draw u in [0,1), the server the router chooses is the smallest index i
\* with u < probs[0] + ... + probs[i]; with one server it is always the
\* first.  (Servers are numbered from 1 here, from 0 in the code.)
Cex_C15_RouterPicksSmallestIndex ==
    (engine = "route" /\ tape # <<>>) =>
        LET u     == tape[1]
            probs == args_sim.probs
        IN  /\ sim.chosen \in 1..Len(probs)
            /\ u < Cumulative(probs, sim.chosen)
            /\ \A j \in 1..(sim.chosen - 1) : ~(u < Cumulative(probs, j))
            /\ Len(probs) = 1 => sim.chosen = 1

\* C16: a rejected arrival changes no server state.  When an Arrival is
\* dispatched to a server with in_system = capacity, the servers (count,
\* busy flag, waiting list) are as before, no Departure is scheduled,
\* served and the wait and service totals are as before and dropped grows
\* by exactly 1; and dropped changes in no other step, whatever room the
\* other servers have.
Thm_C16_RejectedArrivalFrame ==
    [][ /\ (mm'.arrivals = mm.arrivals + 1 /\ mm.in_system = args_mm.capacity)
           => /\ mm'.in_system = mm.in_system
              /\ mm'.server_busy = mm.server_busy
              /\ mm'.queue = mm.queue
              /\ Departures(mm'.events) = Departures(mm.events)
              /\ mm'.served = mm.served /\ mm'.total_wait = mm.total_wait
              /\ mm'.dropped = mm.dropped + 1
        /\ mm'.dropped # mm.dropped
           => /\ mm'.arrivals = mm.arrivals + 1
              /\ mm.in_system = args_mm.capacity
              /\ mm'.dropped = mm.dropped + 1
        /\ ( /\ sim'.arrivals = sim.arrivals + 1
             /\ sim.servers[sim'.chosen].in_system
                  = sim.servers[sim'.chosen].capacity )
           => /\ sim'.servers = sim.servers
              /\ Departures(sim'.events) = Departures(sim.events)
              /\ sim'.served = sim.served
              /\ sim'.total_wait = sim.total_wait
              /\ sim'.total_service = sim.total_service
              /\ sim'.dropped = sim.dropped + 1
        /\ sim'.dropped # sim.dropped
           => /\ sim'.arrivals = sim.arrivals + 1
              /\ sim.servers[sim'.chosen].in_system
                   = sim.servers[sim'.chosen].capacity
              /\ sim'.dropped = sim.dropped + 1
      ]_vars

\* An arrival was just dropped at a full server holding a waiting customer
\* while the other server stands idle.
Wit_C16_DroppedBesideIdleServer ==
    /\ sim.fate = "dropped" /\ sim.last.kind = ARRIVAL
    /\ sim.servers[sim.chosen].queue # <<>>
    /\ \E j \in 1..Len(sim.servers) :
          j # sim.chosen /\ sim.servers[j].in_system = 0

\* C17: FIFO service per server.  In both engines a waiting list holds the
\* arrival timestamps in the order of admission, oldest first, none later
\* than the current time; an admitted customer that has to wait joins at
\* the back; on a Departure the customer pulled into service is the head
\* of the list, the one with the oldest timestamp, and the wait recorded
\* for it (now - timestamp) is not negative.  In run_mm1n, where the
\* Departure carries the customer's arrival time, the customer that departs
\* arrived no later than any customer still waiting.
Thm_C17_FifoPerServer ==
    [][ /\ Sorted(mm'.queue)
        /\ \A k \in 1..Len(mm'.queue) : mm'.queue[k] <= mm'.now
        /\ (mm'.arrivals = mm.arrivals + 1 /\ mm'.fate = "queued") =>
              mm'.queue = Append(mm.queue, mm'.last.time)
        /\ mm'.served = mm.served + 1 =>
              /\ \A k \in 1..Len(mm.queue) : mm'.last.payload <= mm.queue[k]
              /\ mm'.total_wait >= mm.total_wait
              /\ mm.queue # <<>> =>
                    /\ \A k \in 1..Len(mm.queue) : Head(mm.queue) <= mm.queue[k]
                    /\ mm'.queue = Tail(mm.queue)
                    /\ \E d \in Pending(mm'.events) :
                          /\ d.kind = DEPARTURE
                          /\ d.payload = Head(mm.queue)
                          /\ d.time >= mm'.now
        /\ \A i \in 1..Len(sim'.servers) :
              /\ Sorted(sim'.servers[i].queue)
              /\ \A k \in 1..Len(sim'.servers[i].queue) :
                    sim'.servers[i].queue[k] <= sim'.now
        /\ (sim'.arrivals = sim.arrivals + 1 /\ sim'.fate = "queued") =>
              sim'.servers[sim'.chosen].queue =
                 Append(sim.servers[sim'.chosen].queue, sim'.last.time)
        /\ sim'.served = sim.served + 1 =>
              LET srv == sim.servers[sim'.last.payload]
              IN  srv.queue # <<>> =>
                    /\ \A k \in 1..Len(srv.queue) : Head(srv.queue) <= srv.queue[k]
                    /\ sim'.servers[sim'.last.payload].queue = Tail(srv.queue)
                    /\ sim'.total_wait - sim.total_wait
                          = sim'.now - Head(srv.queue)
                    /\ sim'.total_wait >= sim.total_wait
      ]_vars

\* The first Departure of a single server has just pulled the older of two
\* waiting customers into service after a positive wait; the younger one,
\* who arrived later, is still waiting.
Wit_C17_OlderPulledFirst ==
    /\ Len(sim.servers) = 1
    /\ sim.fate = "departed" /\ sim.served = 1
    /\ sim.total_wait > 0
    /\ sim.servers[1].queue # <<>>
    /\ Head(sim.servers[1].queue) > sim.now - sim.total_wait

MMRuns == engine = "mm1n" /\ ~MM_Invalid(args_mm)

\* C18: under the hard cutoff of run_mm1n every dispatched Arrival
\* schedules the next Arrival whatever its time, so the event queue holds
\* an Arrival, and is not empty, whenever the loop condition is tested;
\* with a random stream that yields only finitely many zero inter-arrival
\* times the run terminates, always by popping an event past the horizon,
\* and returns endTime = horizon.
Thm_C18_CutoffTerminates ==
    /\ [][ mm'.arrivals = mm.arrivals + 1 =>
              \E e \in Pending(mm'.events) :
                  /\ e.kind = ARRIVAL /\ e.time >= mm'.now
                  /\ e \notin Pending(heappop(mm.events).rest)
         ]_vars
    /\ [](mm.pc = "loop" =>
            \E e \in Pending(mm.events) : e.kind = ARRIVAL)
    /\ <>(MMRuns => mm.pc = "done")
    /\ [][ (mm.pc = "loop" /\ mm'.pc = "done") =>
              /\ mm.events # <<>>
              /\ heappop(mm.events).item.time > args_mm.horizon
         ]_vars
    /\ [](mm.pc = "done" =>
            /\ mm.now = args_mm.horizon
            /\ MM_Result.end_time = args_mm.horizon)

\* A run of run_mm1n that ended at the cutoff after serving and dropping
\* customers: it returns the horizon, later than its last dispatched event.
Wit_C18_EndedAtCutoff ==
    /\ mm.pc = "done"
    /\ mm.served > 0 /\ mm.dropped > 0
    /\ mm.now = args_mm.horizon /\ mm.now > mm.last.time

\* C19: in run_sim the returned endTime is the time of the last dispatched
\* event, and the greatest of all dispatch times: every event is enqueued
\* with a time >= the current simulated time, so the dispatch times never
\* decrease.  The endTime is not bounded by the horizon T: the witness is
\* a run whose last Departure, scheduled within T, is dispatched after T.
Thm_C19_EndTimeIsLastDispatch ==
    /\ [][ /\ sim'.now >= sim.now
           /\ \A e \in Pending(sim'.events) :
                 e \notin Pending(sim.events) => e.time >= sim'.now
           /\ sim'.last # sim.last =>
                 /\ sim'.last.time >= sim.last.time
                 /\ sim'.now = sim'.last.time
         ]_vars
    /\ [](\A e \in Pending(sim.events) : e.time >= sim.now)
    /\ [](sim.pc = "done" =>
            /\ sim.last.kind # None
            /\ SIM_Result.end_time = sim.last.time)

\* A finished run whose only served customer began service on arrival,
\* within T, and departed, as the last event of the run, after T.
Wit_C19_EndTimeBeyondT ==
    /\ sim.pc = "done"
    /\ sim.served = 1 /\ sim.dropped > 0
    /\ sim.last.kind = DEPARTURE
    /\ SIM_Result.end_time > args_sim.T

Arrivals(h) == SelectSeq(h, LAMBDA e : e.kind = ARRIVAL)

DeparturesOf(h, i) ==
    SelectSeq(h, LAMBDA e : e.kind = DEPARTURE /\ e.payload = i)

\* C20: pending-event invariant.  In both engines, after every dispatched
\* event the event queue holds at most one Arrival and, for each server,
\* exactly one Departure if the server is busy and none if it is idle; so
\* two pending events of the same kind and time can only be Departures of
\* different servers, and no Departure is dispatched for a server with
\* in_system = 0.
Thm_C20_PendingEvents ==
    /\ [](mm.pc = "loop" =>
            /\ Len(Arrivals(mm.events)) <= 1
            /\ Len(Departures(mm.events)) = IF mm.server_busy THEN 1 ELSE 0
            /\ \A j, k \in 1..Len(mm.events) :
                  j # k => ~( /\ mm.events[j].kind = mm.events[k].kind
                              /\ mm.events[j].time = mm.events[k].time ))
    /\ [](sim.pc \in {"loop", "done"} =>
            /\ Len(Arrivals(sim.events)) <= 1
            /\ \A i \in 1..Len(sim.servers) :
                  Len(DeparturesOf(sim.events, i))
                     = IF sim.servers[i].busy THEN 1 ELSE 0
            /\ \A e \in Pending(sim.events) :
                  e.kind = DEPARTURE => e.payload \in 1..Len(sim.servers)
            /\ \A j, k \in 1..Len(sim.events) :
                  ( /\ j # k
                    /\ sim.events[j].kind = sim.events[k].kind
                    /\ sim.events[j].time = sim.events[k].time )
                  => /\ sim.events[j].kind = DEPARTURE
                     /\ sim.events[j].payload # sim.events[k].payload)
    /\ [][ /\ mm'.served = mm.served + 1 => mm.in_system > 0
           /\ sim'.served = sim.served + 1 =>
                 sim.servers[sim'.last.payload].in_system > 0
         ]_vars

\* After a Departure was dispatched, both servers are busy and their
\* Departures are pending at one and the same time, beside the next
\* Arrival.
Wit_C20_TwoDeparturesAtOneTime ==
    /\ sim.pc = "loop" /\ sim.fate = "departed"
    /\ Len(sim.servers) = 2
    /\ sim.servers[1].busy /\ sim.servers[2].busy
    /\ Len(Arrivals(sim.events)) = 1
    /\ \E d1, d2 \in Pending(sim.events) :
          /\ d1.kind = DEPARTURE /\ d2.kind = DEPARTURE
          /\ d1.payload # d2.payload /\ d1.time = d2.time

=============================================================================
